---- MODULE Spec2Model ----
(***************************************************************************)
(* A model of combine_pdfs.py: one run of the command-line tool, from the  *)
(* import of PyPDF2 to the exit of the process.  The file system, the      *)
(* command line and the outcome of the final write are the inputs.         *)
(*                                                                         *)
(* A path is a sequence of one-character strings, relative to the          *)
(* directory given with -d.  Strings are compared by code point, as        *)
(* Python compares them (POSIX paths, case-sensitive).                     *)
(***************************************************************************)
EXTENDS Integers, Sequences, FiniteSets, TLC

\* The most entries the directory tree holds, and the largest modification time.
MaxFiles == 3
MaxTime == 2

----------------------------------------------------------------------------
(* Characters and the str methods the sort key uses *)

Digits == {"0", "1", "2"}
Letters == {"A", "a", "d", "f", "p", "s", "t", "x"}

\* ord(c)
Ord(c) ==
    CASE c = "-" -> 45 [] c = "." -> 46 [] c = "/" -> 47
      [] c = "0" -> 48 [] c = "1" -> 49 [] c = "2" -> 50
      [] c = "A" -> 65 [] c = "a" -> 97 [] c = "d" -> 100
      [] c = "f" -> 102 [] c = "p" -> 112 [] c = "s" -> 115
      [] c = "t" -> 116 [] c = "x" -> 120

\* str.isdigit, str.isalnum, str.lower, int on one character
IsDigit(c) == c \in Digits
IsAlnum(c) == c \in Digits \cup Letters
LowerOf(c) == IF c = "A" THEN "a" ELSE c
IntOf(c) == Ord(c) - 48

----------------------------------------------------------------------------
(* Paths *)

Pdf(stem) == stem \o <<".", "p", "d", "f">>

LastIndexOf(s, c) ==
    LET I == {i \in 1..Len(s) : s[i] = c}
    IN  IF I = {} THEN 0 ELSE CHOOSE i \in I : \A j \in I : j <= i

\* Path.name: the final component
NameOf(path) == SubSeq(path, LastIndexOf(path, "/") + 1, Len(path))

\* the first component of a relative path: the child of the directory it is under
FirstComponent(path) ==
    LET I == {i \in 1..Len(path) : path[i] = "/"}
    IN  IF I = {} THEN path
        ELSE SubSeq(path, 1, (CHOOSE i \in I : \A j \in I : i <= j) - 1)

\* Path.stem: the name without its last suffix; a name whose only dot is the
\* first or the last character has no suffix
StemOf(path) ==
    LET name == NameOf(path)
        i == LastIndexOf(name, ".")
    IN  IF 1 < i /\ i < Len(name) THEN SubSeq(name, 1, i - 1) ELSE name

\* fnmatch of a name against "*.pdf"
MatchesPdf(name) ==
    /\ Len(name) >= 4
    /\ SubSeq(name, Len(name) - 3, Len(name)) = <<".", "p", "d", "f">>

----------------------------------------------------------------------------
(* Sort keys: sequences of typed tokens *)

IntTok(n) == [t |-> "int", v |-> n]
StrTok(c) == [t |-> "str", v |-> Ord(c)]

\* the key of --sort numeric: one token per alphanumeric character of the stem
NumericTok(c) == IF IsDigit(c) THEN IntTok(IntOf(c)) ELSE StrTok(LowerOf(c))
NumericKey(path) ==
    LET alnum == SelectSeq(StemOf(path), IsAlnum)
    IN  [i \in 1..Len(alnum) |-> NumericTok(alnum[i])]

\* Path.__lt__: paths of one directory compare as their strings do
PathKey(path) == [i \in 1..Len(path) |-> StrTok(path[i])]

\* st_mtime
DateKey(mtime) == <<IntTok(mtime)>>

\* x < y on two tokens: "T", "F", or "E" for the TypeError of int < str
TokLt(x, y) ==
    IF x.t # y.t THEN "E" ELSE IF x.v < y.v THEN "T" ELSE "F"

\* k1 < k2 on two lists: the first differing position decides
KeyLt(k1, k2) ==
    LET m == IF Len(k1) < Len(k2) THEN Len(k1) ELSE Len(k2)
        D == {i \in 1..m : k1[i] # k2[i]}
    IN  IF D = {}
        THEN (IF Len(k1) < Len(k2) THEN "T" ELSE "F")
        ELSE LET i == CHOOSE i \in D : \A j \in D : i <= j
             IN  TokLt(k1[i], k2[i])

----------------------------------------------------------------------------
(* sorted(): list.sort on a list shorter than 64 items is one count_run     *)
(* followed by a binary insertion sort; only < is ever asked of two keys,   *)
(* and the first comparison that raises ends the sort.  An item is a        *)
(* record [k |-> key, x |-> path]; a result is [err |-> ..., out |-> ...].  *)

Reverse(s) == [i \in 1..Len(s) |-> s[Len(s) + 1 - i]]

SortError == [err |-> TRUE, out |-> <<>>]

\* the run s[1..i-1] is extended while s[i] continues it
RECURSIVE CountRunFrom(_, _, _)
CountRunFrom(s, i, desc) ==
    IF i > Len(s) THEN [err |-> FALSE, n |-> i - 1, desc |-> desc]
    ELSE LET c == KeyLt(s[i].k, s[i - 1].k)
         IN  IF c = "E" THEN [err |-> TRUE, n |-> 0, desc |-> desc]
             ELSE IF (c = "T") = desc THEN CountRunFrom(s, i + 1, desc)
             ELSE [err |-> FALSE, n |-> i - 1, desc |-> desc]

CountRun(s) ==
    LET c == KeyLt(s[2].k, s[1].k)
    IN  IF c = "E" THEN [err |-> TRUE, n |-> 0, desc |-> FALSE]
        ELSE CountRunFrom(s, 3, c = "T")

\* where pivot goes in the sorted s[l..r-1]: after every item not greater; 0 on error
RECURSIVE Bisect(_, _, _, _)
Bisect(s, pivot, l, r) ==
    IF l >= r THEN l
    ELSE LET p == l + ((r - l) \div 2)
             c == KeyLt(pivot.k, s[p].k)
         IN  IF c = "E" THEN 0
             ELSE IF c = "T" THEN Bisect(s, pivot, l, p)
             ELSE Bisect(s, pivot, p + 1, r)

\* s[1..start-1] is sorted; insert s[start], s[start+1], ... in turn
RECURSIVE BinarySort(_, _)
BinarySort(s, start) ==
    IF start > Len(s) THEN [err |-> FALSE, out |-> s]
    ELSE LET pos == Bisect(s, s[start], 1, start)
         IN  IF pos = 0 THEN SortError
             ELSE BinarySort(SubSeq(s, 1, pos - 1) \o <<s[start]>>
                               \o SubSeq(s, pos, start - 1)
                               \o SubSeq(s, start + 1, Len(s)),
                             start + 1)

ListSort(s) ==
    IF Len(s) < 2 THEN [err |-> FALSE, out |-> s]
    ELSE LET run == CountRun(s)
         IN  IF run.err THEN SortError
             ELSE BinarySort(IF run.desc
                             THEN Reverse(SubSeq(s, 1, run.n))
                                    \o SubSeq(s, run.n + 1, Len(s))
                             ELSE s,
                             run.n + 1)

Undecorate(r) ==
    [err |-> r.err, out |-> [i \in 1..Len(r.out) |-> r.out[i].x]]

\* sorted(paths): the paths are their own keys
SortedPaths(paths) ==
    Undecorate(ListSort([i \in 1..Len(paths) |->
                            [k |-> PathKey(paths[i]), x |-> paths[i]]]))

\* every order in which the directory scan may yield the members of S
Orders(S) ==
    {o \in [1..Cardinality(S) -> S] : \A i, j \in DOMAIN o : i # j => o[i] # o[j]}

----------------------------------------------------------------------------
(* The three orderings of main *)

\* a variant that sorts through a dict from key to file: of the files that
\* share a key only the last is kept
SortNumericByKeyDict(files) ==
    LET keep == SelectSeq([i \in 1..Len(files) |-> i],
                          LAMBDA i : \A j \in (i + 1)..Len(files) :
                                        NumericKey(files[j]) # NumericKey(files[i]))
    IN  Undecorate(ListSort([n \in 1..Len(keep) |->
                                [k |-> NumericKey(files[keep[n]]),
                                 x |-> files[keep[n]]]]))

\* sorted(pdf_files, key=<one token per alphanumeric character of x.stem>)
SortNumeric(files) ==
    Undecorate(ListSort([i \in 1..Len(files) |->
                            [k |-> NumericKey(files[i]), x |-> files[i]]]))

\* sorted(pdf_files, key=lambda x: x.stat().st_mtime), mtime the value stat reads
SortDate(files, mtime) ==
    Undecorate(ListSort([i \in 1..Len(files) |->
                            [k |-> DateKey(mtime[files[i]]), x |-> files[i]]]))

----------------------------------------------------------------------------
(* The state of one run *)

VARIABLES
    dirKind,    \* what the path given with -d is: "missing", "file" or "dir"
    tree,       \* the paths under the directory, each with its kind
    pc,         \* where the run is
    sortMode,   \* args.sort, "unset" before the arguments are parsed
    pdf_files,  \* the list main holds
    idx,        \* position of the for loop of combine_pdfs in pdf_files
    merger,     \* the PdfMerger: "none", "open" or "closed"
    pages,      \* the files whose pages the merger holds, in order
    stdout,     \* lines printed to standard output
    stderr,     \* lines printed to standard error
    status,     \* exit status of the process, -1 while it runs
    outFile,    \* what is at the output path
    exc         \* the exception that ended the pipeline, "none" if none

vars == <<dirKind, tree, pc, sortMode, pdf_files, idx, merger, pages,
          stdout, stderr, status, outFile, exc>>

\* "file": a regular file PyPDF2 can read; "corrupt": a regular file it cannot;
\* "dir": a directory
Kinds == {"file", "corrupt", "dir"}

\* the paths a tree is drawn from
PathPool ==
    { Pdf(<<"a", "1">>), Pdf(<<"a", "2">>), Pdf(<<"a", "1", "0">>),
      Pdf(<<"1", "a">>), Pdf(<<"A", "2">>), Pdf(<<"-">>),
      <<"a", "1", ".", "t", "x", "t">>,
      <<"s", "/">> \o Pdf(<<"a", "2">>) }

SortChoices == {"name", "numeric", "date"}
SortDefault == "numeric"

Line(tag, what, file, n) == [tag |-> tag, what |-> what, file |-> file, n |-> n]

Prior == [state |-> "prior", content |-> <<>>]

Init ==
    /\ dirKind \in {"missing", "file", "dir"}
    /\ \E S \in SUBSET PathPool :
          /\ Cardinality(S) <= MaxFiles
          /\ dirKind # "dir" => S = {}
          /\ tree \in [S -> Kinds]
    /\ pc = "import"
    /\ sortMode = "unset"
    /\ pdf_files = <<>>
    /\ idx = 0
    /\ merger = "none"
    /\ pages = <<>>
    /\ stdout = <<>>
    /\ stderr = <<>>
    /\ status = -1
    /\ outFile = Prior
    /\ exc = "none"

----------------------------------------------------------------------------
(* Module import *)

ImportOk ==
    /\ pc = "import"
    /\ pc' = "parse"
    /\ UNCHANGED <<dirKind, tree, sortMode, pdf_files, idx, merger, pages,
                   stdout, stderr, status, outFile, exc>>

\* PyPDF2 is not installed: two lines on standard output, exit status 1
ImportFails ==
    /\ pc = "import"
    /\ stdout' = stdout \o <<Line("Error", "PyPDF2 is not installed", <<>>, 0),
                             Line("Hint", "pip install PyPDF2", <<>>, 0)>>
    /\ status' = 1
    /\ exc' = "ImportError"
    /\ pc' = "exit"
    /\ UNCHANGED <<dirKind, tree, sortMode, pdf_files, idx, merger, pages,
                   stderr, outFile>>

----------------------------------------------------------------------------
(* parser.parse_args() *)

\* -s given with one of the choices, or left out
ParseArgs ==
    /\ pc = "parse"
    /\ \E given \in SortChoices \cup {"absent"} :
          sortMode' = IF given = "absent" THEN SortDefault ELSE given
    /\ pc' = "list"
    /\ UNCHANGED <<dirKind, tree, pdf_files, idx, merger, pages,
                   stdout, stderr, status, outFile, exc>>

\* an argument the parser rejects (a -s value outside the choices, an unknown
\* flag): usage and the error on standard error, exit status 2
ParseArgsRejected ==
    /\ pc = "parse"
    /\ stderr' = stderr \o <<Line("usage", "", <<>>, 0),
                             Line("error", "invalid choice", <<>>, 0)>>
    /\ status' = 2
    /\ exc' = "SystemExit"
    /\ pc' = "exit"
    /\ UNCHANGED <<dirKind, tree, sortMode, pdf_files, idx, merger, pages,
                   stdout, outFile>>

\* -h: the help text on standard output, exit status 0
ParseArgsHelp ==
    /\ pc = "parse"
    /\ stdout' = Append(stdout, Line("help", "", <<>>, 0))
    /\ status' = 0
    /\ exc' = "SystemExit"
    /\ pc' = "exit"
    /\ UNCHANGED <<dirKind, tree, sortMode, pdf_files, idx, merger, pages,
                   stderr, outFile>>

----------------------------------------------------------------------------
(* get_pdf_files *)

\* directory_path.glob("*.pdf"): the children of the directory whose name matches
Glob(t) == {c \in {FirstComponent(p) : p \in DOMAIN t} : MatchesPdf(c)}

Raise(e) ==
    /\ exc' = e
    /\ pc' = "raised"

\* a variant without the check for an empty list
GetPdfFilesNoEmptyCheck ==
    /\ pc = "list"
    /\ IF dirKind = "missing"
       THEN Raise("FileNotFoundError") /\ UNCHANGED pdf_files
       ELSE IF dirKind # "dir"
       THEN Raise("NotADirectoryError") /\ UNCHANGED pdf_files
       ELSE /\ \E scan \in Orders(Glob(tree)) :
                 pdf_files' = SortedPaths(scan).out
            /\ pc' = "sort"
            /\ UNCHANGED exc
    /\ UNCHANGED <<dirKind, tree, sortMode, idx, merger, pages,
                   stdout, stderr, status, outFile>>

GetPdfFiles ==
    /\ pc = "list"
    /\ IF dirKind = "missing"
       THEN Raise("FileNotFoundError") /\ UNCHANGED pdf_files
       ELSE IF dirKind # "dir"
       THEN Raise("NotADirectoryError") /\ UNCHANGED pdf_files
       ELSE IF Glob(tree) = {}
       THEN Raise("ValueError") /\ UNCHANGED pdf_files
       ELSE /\ \E scan \in Orders(Glob(tree)) :
                 pdf_files' = SortedPaths(scan).out
            /\ pc' = "sort"
            /\ UNCHANGED exc
    /\ UNCHANGED <<dirKind, tree, sortMode, idx, merger, pages,
                   stdout, stderr, status, outFile>>

----------------------------------------------------------------------------
(* main: the sort chosen with -s *)

SortFiles ==
    /\ pc = "sort"
    /\ \/ /\ sortMode = "numeric"
          /\ LET r == SortNumeric(pdf_files)
             IN  IF r.err
                 THEN Raise("TypeError") /\ UNCHANGED pdf_files
                 ELSE pdf_files' = r.out /\ pc' = "combine" /\ UNCHANGED exc
       \/ /\ sortMode = "date"
          /\ \E mtime \in [{pdf_files[i] : i \in DOMAIN pdf_files} -> 1..MaxTime] :
                pdf_files' = SortDate(pdf_files, mtime).out
          /\ pc' = "combine"
          /\ UNCHANGED exc
       \/ /\ sortMode = "name"
          /\ pc' = "combine"
          /\ UNCHANGED <<pdf_files, exc>>
    /\ UNCHANGED <<dirKind, tree, sortMode, idx, merger, pages,
                   stdout, stderr, status, outFile>>

----------------------------------------------------------------------------
(* combine_pdfs *)

\* a child of the directory that is no path of the tree is a directory
KindOf(t, f) == IF f \in DOMAIN t THEN t[f] ELSE "dir"

\* merger.append(str(pdf_file)) raises on anything but a readable PDF file
AppendRaises(f) == KindOf(tree, f) # "file"

MergerInit ==
    /\ pc = "combine"
    /\ merger' = "open"
    /\ pages' = <<>>
    /\ stdout' = Append(stdout, Line("Combining", "", <<>>, Len(pdf_files)))
    /\ idx' = 1
    /\ pc' = "append"
    /\ UNCHANGED <<dirKind, tree, sortMode, pdf_files, stderr, status,
                   outFile, exc>>

\* a variant whose except branch leaves the loop instead of continuing it
AppendFileBreak ==
    /\ pc = "append"
    /\ idx <= Len(pdf_files)
    /\ LET f == pdf_files[idx]
       IN  IF AppendRaises(f)
           THEN /\ stdout' = stdout \o <<Line("Adding", "", f, 0),
                                         Line("Warning", "Could not add", f, 0)>>
                /\ idx' = Len(pdf_files) + 1
                /\ UNCHANGED pages
           ELSE /\ stdout' = Append(stdout, Line("Adding", "", f, 0))
                /\ idx' = idx + 1
                /\ pages' = Append(pages, f)
    /\ UNCHANGED <<dirKind, tree, pc, sortMode, pdf_files, merger, stderr,
                   status, outFile, exc>>

\* one iteration of the for loop
AppendFile ==
    /\ pc = "append"
    /\ idx <= Len(pdf_files)
    /\ LET f == pdf_files[idx]
       IN  IF AppendRaises(f)
           THEN /\ stdout' = stdout \o <<Line("Adding", "", f, 0),
                                         Line("Warning", "Could not add", f, 0)>>
                /\ UNCHANGED pages
           ELSE /\ stdout' = Append(stdout, Line("Adding", "", f, 0))
                /\ pages' = Append(pages, f)
    /\ idx' = idx + 1
    /\ UNCHANGED <<dirKind, tree, pc, sortMode, pdf_files, merger, stderr,
                   status, outFile, exc>>

\* merger.write(output_file): the path is opened for writing, which empties it,
\* and the document is written to it; either step may fail
WriteOutput ==
    /\ pc = "append"
    /\ idx > Len(pdf_files)
    /\ stdout' = Append(stdout, Line("Writing", "", <<>>, 0))
    /\ \/ /\ outFile' = [state |-> "complete", content |-> pages]
          /\ pc' = "close"
          /\ UNCHANGED exc
       \/ /\ Raise("OSError")
          /\ UNCHANGED outFile
       \/ /\ Raise("OSError")
          /\ outFile' = [state |-> "truncated", content |-> <<>>]
    /\ UNCHANGED <<dirKind, tree, sortMode, pdf_files, idx, merger, pages,
                   stderr, status>>

\* merger.close(), the success line, and the return through main
CloseAndReport ==
    /\ pc = "close"
    /\ merger' = "closed"
    /\ stdout' = Append(stdout, Line("Success", "", <<>>, Len(pdf_files)))
    /\ status' = 0
    /\ pc' = "exit"
    /\ UNCHANGED <<dirKind, tree, sortMode, pdf_files, idx, pages, stderr,
                   outFile, exc>>

----------------------------------------------------------------------------
(* main: except Exception *)

\* a variant that prints the message with a plain print, to standard output
ExceptHandlerToStdout ==
    /\ pc = "raised"
    /\ stdout' = Append(stdout, Line("Error", exc, <<>>, 0))
    /\ status' = 1
    /\ pc' = "exit"
    /\ UNCHANGED <<dirKind, tree, sortMode, pdf_files, idx, merger, pages,
                   stderr, outFile, exc>>

ExceptHandler ==
    /\ pc = "raised"
    /\ stderr' = Append(stderr, Line("Error", exc, <<>>, 0))
    /\ status' = 1
    /\ pc' = "exit"
    /\ UNCHANGED <<dirKind, tree, sortMode, pdf_files, idx, merger, pages,
                   stdout, outFile, exc>>

----------------------------------------------------------------------------

Next ==
    \/ ImportOk
    \/ ImportFails
    \/ ParseArgs
    \/ ParseArgsRejected
    \/ ParseArgsHelp
    \/ GetPdfFiles
    \/ SortFiles
    \/ MergerInit
    \/ AppendFile
    \/ WriteOutput
    \/ CloseAndReport
    \/ ExceptHandler

Spec == Init /\ [][Next]_vars

----------------------------------------------------------------------------
(* Vocabulary of the properties *)

Range(f) == {f[i] : i \in DOMAIN f}

Count(f, x) == Cardinality({i \in DOMAIN f : f[i] = x})

IsPermutation(a, b) ==
    /\ Len(a) = Len(b)
    /\ \A x \in Range(a) \cup Range(b) : Count(a, x) = Count(b, x)

Precedes(f, x, y) == \E i, j \in DOMAIN f : i < j /\ f[i] = x /\ f[j] = y

\* the paths of the tree that are regular files directly under the directory
\* and whose name ends in .pdf
RegularPdfFiles ==
    {p \in DOMAIN tree :
        /\ \A i \in DOMAIN p : p[i] # "/"
        /\ Len(p) >= 4
        /\ SubSeq(p, Len(p) - 3, Len(p)) = <<".", "p", "d", "f">>
        /\ tree[p] # "dir"}

IsReadable(f) == f \in DOMAIN tree /\ tree[f] = "file"

Unreadable == {i \in DOMAIN pdf_files : ~IsReadable(pdf_files[i])}

Warnings == SelectSeq(stdout, LAMBDA l : l.tag = "Warning")

\* the run got past import and argument parsing
ArgsAccepted == sortMode # "unset"

FatalErrors ==
    {"FileNotFoundError", "NotADirectoryError", "ValueError", "TypeError", "OSError"}

\* the decimal value of a sequence of digits
RECURSIVE NumberOf(_)
NumberOf(ds) ==
    IF ds = <<>> THEN 0
    ELSE NumberOf(SubSeq(ds, 1, Len(ds) - 1)) * 10 + IntOf(ds[Len(ds)])

\* where the digit run that ends a stem starts
RunStart(st) ==
    CHOOSE i \in 1..(Len(st) + 1) :
        /\ \A j \in i..Len(st) : IsDigit(st[j])
        /\ i = 1 \/ ~IsDigit(st[i - 1])

StemPrefix(p) == SubSeq(StemOf(p), 1, RunStart(StemOf(p)) - 1)
StemNumber(p) == NumberOf(SubSeq(StemOf(p), RunStart(StemOf(p)), Len(StemOf(p))))
EndsInNumber(p) == RunStart(StemOf(p)) <= Len(StemOf(p))

FileA1 == Pdf(<<"a", "1">>)
FileA2 == Pdf(<<"a", "2">>)
FileA10 == Pdf(<<"a", "1", "0">>)

----------------------------------------------------------------------------
(* Properties *)

\* C1: with exactly a1.pdf, a2.pdf and a10.pdf listed, the list handed to the
\* Merger is a1, a2, a10 under --sort numeric and a1, a10, a2 under --sort name;
\* and under --sort numeric, of two files whose stems are the same prefix
\* followed by a number, the one with the smaller number comes first.
C1_NaturalOrder ==
    pc = "combine" =>
      /\ Range(pdf_files) = {FileA1, FileA2, FileA10} =>
            /\ sortMode = "numeric" => pdf_files = <<FileA1, FileA2, FileA10>>
            /\ sortMode = "name" => pdf_files = <<FileA1, FileA10, FileA2>>
      /\ sortMode = "numeric" =>
            \A f, g \in Range(pdf_files) :
               (/\ EndsInNumber(f) /\ EndsInNumber(g)
                /\ StemPrefix(f) = StemPrefix(g)
                /\ StemNumber(f) < StemNumber(g)) => Precedes(pdf_files, f, g)

\* C2: on a successful run the count in the final success line is the number
\* of files whose append succeeded: the length of the list less the number of
\* warnings.
C2_ReportedCount ==
    (pc = "exit" /\ merger = "closed" /\ status = 0) =>
      /\ stdout[Len(stdout)].tag = "Success"
      /\ stdout[Len(stdout)].n = Len(pages)
      /\ stdout[Len(stdout)].n = Len(pdf_files) - Len(Warnings)

\* C3: when the final write has failed and the run has ended, the output path
\* holds a complete combined document or what it held before the run.
C3_AtomicWrite ==
    (pc = "exit" /\ exc = "OSError") => outFile.state \in {"prior", "complete"}

\* C4: a run over an ordered list with exactly one unreadable file, whose
\* write succeeds, exits with status 0, prints exactly one warning, naming that
\* file, and writes the readable files in the order the list has them.
C4_CorruptFileTolerance ==
    (pc = "exit" /\ merger # "none" /\ exc = "none" /\ Cardinality(Unreadable) = 1) =>
      /\ status = 0
      /\ Len(Warnings) = 1
      /\ \A i \in Unreadable : Warnings[1].file = pdf_files[i]
      /\ outFile = [state |-> "complete",
                    content |-> SelectSeq(pdf_files, IsReadable)]

\* a finished run over three files, the second of them unreadable
C4_Witness ==
    /\ pc = "exit" /\ merger # "none" /\ exc = "none"
    /\ Len(pdf_files) = 3 /\ Unreadable = {2}
    /\ Len(outFile.content) = 2

\* C5: under --sort numeric the sort step raises no error.
C5_NumericSortNeverFails ==
    sortMode = "numeric" => exc # "TypeError"

\* C6: a run over an existing directory none of whose children matches *.pdf
\* ends with the ValueError of the lister and exit status 1, never creates the
\* merger and leaves the output path as it was.
C6_EmptyDirectory ==
    (dirKind = "dir" /\ Glob(tree) = {}) =>
      /\ merger = "none"
      /\ outFile = Prior
      /\ (ArgsAccepted /\ pc \in {"raised", "exit"}) => exc = "ValueError"
      /\ (ArgsAccepted /\ pc = "exit") =>
            /\ status = 1
            /\ stderr = <<Line("Error", "ValueError", <<>>, 0)>>

\* a finished run over a directory that holds only a text file and a
\* subdirectory with a PDF in it
C6_Witness ==
    /\ pc = "exit" /\ ArgsAccepted
    /\ dirKind = "dir" /\ Cardinality(DOMAIN tree) = 2 /\ Glob(tree) = {}
    /\ exc = "ValueError"

\* C7 as stated: every run ends with exit status 0 or 1; 1 with exactly one
\* line on standard error when a stage failed fatally, 0 with the success line
\* on standard output and nothing on standard error otherwise.
C7_ExitStatus ==
    pc = "exit" =>
      /\ status \in {0, 1}
      /\ exc \in FatalErrors =>
            status = 1 /\ Len(stderr) = 1
      /\ exc \notin FatalErrors =>
            /\ status = 0
            /\ stderr = <<>>
            /\ stdout # <<>> /\ stdout[Len(stdout)].tag = "Success"

\* C7 amended: the same of every run whose arguments the parser accepted;
\* a run the parser rejects ends with status 2, and a run that cannot import
\* PyPDF2 ends with status 1 and nothing on standard error.
C7_ExitStatusAfterParsing ==
    pc = "exit" =>
      /\ ArgsAccepted =>
            /\ status \in {0, 1}
            /\ status = 1 <=> exc \in FatalErrors
            /\ dirKind # "dir" => status = 1
            /\ outFile.state = "truncated" => status = 1
            /\ status = 1 => stderr = <<Line("Error", exc, <<>>, 0)>>
            /\ status = 0 =>
                  /\ stderr = <<>>
                  /\ stdout[Len(stdout)].tag = "Success"
      /\ ~ArgsAccepted =>
            /\ status \in {0, 1, 2}
            /\ status = 2 => Len(stderr) = 2
            /\ status = 1 => stderr = <<>> /\ exc = "ImportError"

\* a run that skipped a file and then failed to write
C7_Witness ==
    /\ pc = "exit" /\ ArgsAccepted
    /\ exc = "OSError" /\ status = 1
    /\ Len(Warnings) >= 1

\* C8: the sort step hands the Merger a permutation of the list the lister
\* returned, in each of the three modes.
C8_SortIsPermutation ==
    [][(pc = "sort" /\ pc' = "combine") => IsPermutation(pdf_files, pdf_files')]_vars

\* a numeric sort that moved a file and kept two files of equal key
C8_Witness ==
    /\ pc = "combine" /\ sortMode = "numeric"
    /\ pdf_files = <<FileA1, Pdf(<<"A", "2">>), FileA2>>

\* C9: the lister returns exactly the regular files directly under the
\* directory whose name ends in .pdf: no directory and no nested file.
C9_OnlyRegularFiles ==
    pc \in {"sort", "combine", "append", "close"} =>
      Range(pdf_files) = RegularPdfFiles

\* C10: a run that created the merger has closed it when the process exits.
C10_MergerReleased ==
    (pc = "exit" /\ merger # "none") => merger = "closed"

====
